---------------------------- MODULE Spec2Model ----------------------------
(***************************************************************************)
(* A model of feonancials: the ledger store of src/transaction.rs (one CSV *)
(* file per month under <root>/<year>/<MM>.csv) and the interactive        *)
(* session of src/tui (App, run_app, add_enter, update_enter), preceded by *)
(* the one-shot command-line operations that build the store.              *)
(*                                                                         *)
(* Texts are sequences of one-character strings, dates are <<y, m, d>>,    *)
(* amounts are the integral f64 values.  The `repeat` field is carried by  *)
(* every write as Repeat::None and read by nothing; it is left out.        *)
(***************************************************************************)
EXTENDS Integers, Sequences, FiniteSets, TLC

(***************************************************************************)
(* Bounds of the exploration.                                              *)
(***************************************************************************)
\* Largest number of transactions in the store the explored runs write.
MaxStored == 2
\* Longest description the explored runs confirm.
MaxDescLen == 1
\* Largest row selection explored, usize::MAX apart.
MaxCursor == 2

\* Most months of a catalog browsed.
NavMonths == 3

\* Most rows of a month browsed.
NavRows == 3

(***************************************************************************)
(* Characters and texts.                                                   *)
(***************************************************************************)
Digits == <<"0", "1", "2", "3", "4", "5", "6", "7", "8", "9">>

IsDigit(c) == \E i \in 1..10 : Digits[i] = c

DigitVal(c) == (CHOOSE i \in 1..10 : Digits[i] = c) - 1

\* Byte order of the characters the model uses: '-' (0x2D) < '0'..'9'.
CharOrd(c) == IF c = "-" THEN 0 ELSE IF IsDigit(c) THEN DigitVal(c) + 1 ELSE 11

\* Ord for String: lexicographic on bytes, a proper prefix is smaller.
RECURSIVE StrLess(_, _)
StrLess(a, b) ==
    IF b = <<>> THEN FALSE
    ELSE IF a = <<>> THEN TRUE
    ELSE IF CharOrd(Head(a)) # CharOrd(Head(b)) THEN CharOrd(Head(a)) < CharOrd(Head(b))
    ELSE StrLess(Tail(a), Tail(b))

\* Display for an unsigned integer: decimal digits, no padding.
RECURSIVE NatToStr(_)
NatToStr(n) ==
    IF n < 10 THEN <<Digits[n + 1]>>
    ELSE NatToStr(n \div 10) \o <<Digits[(n % 10) + 1]>>

\* {:0>w}: left-pad with '0' to width w.
RECURSIVE PadZero(_, _)
PadZero(s, w) == IF Len(s) >= w THEN s ELSE PadZero(<<"0">> \o s, w)

\* The longest run of digits at the start of s, at most max characters.
RECURSIVE DigitPrefixLen(_, _)
DigitPrefixLen(s, max) ==
    IF max = 0 \/ s = <<>> \/ ~IsDigit(Head(s)) THEN 0
    ELSE 1 + DigitPrefixLen(Tail(s), max - 1)

RECURSIVE StrToNat(_)
StrToNat(s) ==
    IF s = <<>> THEN 0 ELSE StrToNat(SubSeq(s, 1, Len(s) - 1)) * 10 + DigitVal(s[Len(s)])

Drop(s, n) == SubSeq(s, n + 1, Len(s))

(***************************************************************************)
(* Dates.                                                                  *)
(***************************************************************************)
IsLeap(y) == (y % 4 = 0 /\ y % 100 # 0) \/ y % 400 = 0

DaysInMonth(y, m) ==
    IF m = 2 THEN (IF IsLeap(y) THEN 29 ELSE 28)
    ELSE IF m \in {4, 6, 9, 11} THEN 30 ELSE 31

ValidYmd(y, m, d) == m \in 1..12 /\ d >= 1 /\ d <= DaysInMonth(y, m)

\* NaiveDate's derived Ord: by year, then month, then day.
DateLess(a, b) ==
    \/ a[1] < b[1]
    \/ a[1] = b[1] /\ a[2] < b[2]
    \/ a[1] = b[1] /\ a[2] = b[2] /\ a[3] < b[3]

ParseError == [ok |-> FALSE]

\* The last step of NaiveDate::parse_from_str: the three numbers must be a
\* date of the calendar.
ParsedDate(y, m, d) ==
    IF ValidYmd(y, m, d) THEN [ok |-> TRUE, date |-> <<y, m, d>>] ELSE ParseError

\* %d: s starts with n digits, 1 or 2, and nothing follows them.
ParseDay(y, m, s, n) ==
    IF n >= 1 /\ Len(s) = n THEN ParsedDate(y, m, StrToNat(s)) ELSE ParseError

\* %m-: s starts with n digits, 1 or 2, and a '-' follows them.
ParseMonth(y, s, n) ==
    IF n >= 1 /\ Len(s) > n /\ s[n + 1] = "-"
    THEN ParseDay(y, StrToNat(SubSeq(s, 1, n)), Drop(s, n + 1),
                  DigitPrefixLen(Drop(s, n + 1), 2))
    ELSE ParseError

\* %Y-: s starts with n digits and a '-' follows them.
ParseYear(sign, s, n) ==
    IF n >= 1 /\ Len(s) > n /\ s[n + 1] = "-"
    THEN ParseMonth(sign * StrToNat(SubSeq(s, 1, n)), Drop(s, n + 1),
                    DigitPrefixLen(Drop(s, n + 1), 2))
    ELSE ParseError

\* NaiveDate::parse_from_str(s, "%Y-%m-%d"): a year of 1 to 4 digits (any
\* number after a sign), '-', a month of 1 or 2 digits, '-', a day of 1 or 2
\* digits, nothing after it, and the three numbers a date of the calendar.
string_to_time(s) ==
    IF s # <<>> /\ Head(s) = "-"
    THEN ParseYear(-1, Tail(s), DigitPrefixLen(Tail(s), Len(s)))
    ELSE ParseYear(1, s, DigitPrefixLen(s, 4))

\* Display for NaiveDate and the format "%Y-%m-%d", for the years 0..9999.
time_to_csv(t) ==
    PadZero(NatToStr(t[1]), 4) \o <<"-">> \o PadZero(NatToStr(t[2]), 2)
        \o <<"-">> \o PadZero(NatToStr(t[3]), 2)

(***************************************************************************)
(* Amounts.                                                                *)
(***************************************************************************)
\* Display for an integral f64: "1", "-1", "0".
AmountToString(a) == IF a < 0 THEN <<"-">> \o NatToStr(-a) ELSE NatToStr(a)

\* str::parse::<f64> on the characters of the model: an optional sign and at
\* least one digit, nothing else.
ParseAmount(s) ==
    IF s # <<>> /\ Head(s) = "-"
    THEN IF Len(s) > 1 /\ DigitPrefixLen(Tail(s), Len(s)) = Len(s) - 1
         THEN [ok |-> TRUE, amount |-> 0 - StrToNat(Tail(s))]
         ELSE ParseError
    ELSE IF s # <<>> /\ DigitPrefixLen(s, Len(s)) = Len(s)
         THEN [ok |-> TRUE, amount |-> StrToNat(s)]
         ELSE ParseError

(***************************************************************************)
(* Transactions and their order.                                           *)
(***************************************************************************)
Transaction(date, amount, description) ==
    [date |-> date, amount |-> amount, description |-> description]

\* impl Ord for Transaction: by date alone.
TransactionLessEq(a, b) == ~DateLess(b.date, a.date)

\* A faulty insertion: t goes before the transactions of its date.
RECURSIVE SortedInsertBeforeEqual(_, _)
SortedInsertBeforeEqual(sorted, t) ==
    IF sorted = <<>> THEN <<t>>
    ELSE IF DateLess(Head(sorted).date, t.date)
         THEN <<Head(sorted)>> \o SortedInsertBeforeEqual(Tail(sorted), t)
         ELSE <<t>> \o sorted

\* One step of a stable sort: t goes behind every element that is not
\* greater than it.
RECURSIVE SortedInsert(_, _)
SortedInsert(sorted, t) ==
    IF sorted = <<>> THEN <<t>>
    ELSE IF TransactionLessEq(Head(sorted), t)
         THEN <<Head(sorted)>> \o SortedInsert(Tail(sorted), t)
         ELSE <<t>> \o sorted

\* Vec::sort: stable, ascending by Ord.
RECURSIVE Sort(_)
Sort(ts) ==
    IF ts = <<>> THEN <<>>
    ELSE SortedInsert(Sort(SubSeq(ts, 1, Len(ts) - 1)), ts[Len(ts)])

\* A faulty removal: the last element goes, whatever the index.
RemoveLast(ts, index) == SubSeq(ts, 1, Len(ts) - 1)

\* Vec::remove(index) for an index inside the vector.
Remove(ts, index) == SubSeq(ts, 1, index) \o SubSeq(ts, index + 2, Len(ts))

RECURSIVE SumAmounts(_)
SumAmounts(ts) == IF ts = <<>> THEN 0 ELSE Head(ts).amount + SumAmounts(Tail(ts))

(***************************************************************************)
(* The ledger store: a root directory, the year directories in it and the  *)
(* month files in them.  A file is the sequence of its records; a month    *)
(* key <<year, month>> stands for the path get_filename_from_date builds.  *)
(* writable tells whether the process may write under the root: the        *)
(* permissions of the file system.                                         *)
(***************************************************************************)
Ok(v) == [ok |-> TRUE, value |-> v]

Err == [ok |-> FALSE]

get_filename_from_date(year, month) == <<year, month>>

\* csv::Trim::All on one field.
RECURSIVE TrimStart(_)
TrimStart(s) == IF s # <<>> /\ Head(s) = " " THEN TrimStart(Tail(s)) ELSE s

RECURSIVE TrimEnd(_)
TrimEnd(s) ==
    IF s # <<>> /\ s[Len(s)] = " " THEN TrimEnd(SubSeq(s, 1, Len(s) - 1)) ELSE s

\* One record written by csv::Writer::serialize and read back by
\* Reader::deserialize: the date through time_to_csv and string_to_time,
\* the description through the trimming reader.
ReadRecord(t) ==
    Transaction(string_to_time(time_to_csv(t.date)).date,
                ParseAmount(AmountToString(t.amount)).amount,
                TrimEnd(TrimStart(t.description)))

\* A faulty load: a missing file reads as the first file of its year.
get_transactions_of_year(store, filename) ==
    IF filename \in DOMAIN store.files
    THEN [i \in 1..Len(store.files[filename]) |-> ReadRecord(store.files[filename][i])]
    ELSE IF <<filename[1], 1>> \in DOMAIN store.files
    THEN store.files[<<filename[1], 1>>]
    ELSE <<>>

\* A missing file is a month without transactions.
get_transactions(store, filename) ==
    IF filename \notin DOMAIN store.files THEN <<>>
    ELSE [i \in 1..Len(store.files[filename]) |-> ReadRecord(store.files[filename][i])]

\* csv::Writer::from_path creates or truncates the file and creates no
\* directory: it fails when the year directory is missing and when the
\* file may not be written.
CanCreate(store, filename) ==
    store.root /\ filename[1] \in store.dirs /\ store.writable

write_entries(store, transactions, filename) ==
    IF ~CanCreate(store, filename) THEN Err
    ELSE Ok([store EXCEPT !.files =
                [f \in DOMAIN store.files \cup {filename} |->
                    IF f = filename THEN Sort(transactions) ELSE store.files[f]]])

write_transactions(store, transactions) ==
    IF transactions = <<>> THEN Ok(store)
    ELSE write_entries(store, transactions,
             get_filename_from_date(transactions[1].date[1], transactions[1].date[2]))

add_entry(store, year, month, day, amount, description) ==
    LET filename == get_filename_from_date(year, month)
    IN  write_entries(store,
            Append(get_transactions(store, filename),
                   Transaction(<<year, month, day>>, amount, description)),
            filename)

\* A faulty add: a transaction the file holds already is not added again.
add_transaction_unique(store, transaction) ==
    LET filename == get_filename_from_date(transaction.date[1], transaction.date[2])
    IN  write_entries(store,
            IF \E i \in 1..Len(get_transactions(store, filename)) :
                  /\ get_transactions(store, filename)[i].date = transaction.date
                  /\ get_transactions(store, filename)[i].description =
                        transaction.description
            THEN get_transactions(store, filename)
            ELSE Append(get_transactions(store, filename), transaction),
            filename)

add_transaction(store, transaction) ==
    LET filename == get_filename_from_date(transaction.date[1], transaction.date[2])
    IN  write_entries(store, Append(get_transactions(store, filename), transaction),
                      filename)

get_date(date) == string_to_time(date)

get_date_or_today(poss_date, today) ==
    IF poss_date = <<>> THEN [ok |-> TRUE, date |-> today] ELSE string_to_time(poss_date)

\* add_date_entry once its date is known: the amount is negated.
AddDated(store, date, amount, description) ==
    IF ~date.ok THEN Err
    ELSE add_entry(store, date.date[1], date.date[2], date.date[3],
                   0 - amount, description)

\* The command-line add.
add_date_entry(store, poss_date, amount, description, today) ==
    AddDated(store, get_date_or_today(poss_date, today), amount, description)

\* get_transactions_for_month once its date is known: load, then sort.
TransactionsOfMonth(store, date) ==
    Sort(get_transactions(store, get_filename_from_date(date[1], date[2])))

LoadDated(store, date) ==
    IF ~date.ok THEN Err ELSE Ok(TransactionsOfMonth(store, date.date))

get_transactions_for_month(store, poss_date, today) ==
    LoadDated(store, get_date_or_today(poss_date, today))

\* del_entry_by_date once the file is read; Vec::remove panics on an index
\* outside the vector.
RemoveAndWrite(store, filename, transactions, index) ==
    IF index >= Len(transactions) THEN [ok |-> FALSE, panic |-> TRUE]
    ELSE write_entries(store, Remove(transactions, index), filename)
            @@ [panic |-> FALSE]

del_entry_by_date(store, date, index) ==
    RemoveAndWrite(store, get_filename_from_date(date[1], date[2]),
                   get_transactions(store, get_filename_from_date(date[1], date[2])),
                   index)

\* del_entry once its date is known.
DelDated(store, date, index) ==
    IF ~date.ok THEN [ok |-> FALSE, panic |-> FALSE]
    ELSE del_entry_by_date(store, date.date, index)

del_entry(store, poss_date, index, today) ==
    DelDated(store, get_date_or_today(poss_date, today), index)

get_sum_for_month(store, year, month) ==
    SumAmounts(get_transactions(store, get_filename_from_date(year, month)))

\* "{:.2}" of an integral sum.
get_formatted_sum_for_month(store, date) ==
    AmountToString(get_sum_for_month(store, date[1], date[2])) \o <<".", "0", "0">>

\* The label of a month file: "<year directory>-<file stem>".
MonthLabel(filename) ==
    NatToStr(filename[1]) \o <<"-">> \o PadZero(NatToStr(filename[2]), 2)

RECURSIVE SortStrings(_)
SortStrings(set) ==
    IF set = {} THEN <<>>
    ELSE LET min == CHOOSE a \in set : \A b \in set \ {a} : StrLess(a, b)
         IN  <<min>> \o SortStrings(set \ {min})

\* read_dir of a missing root is an error.
get_months(store) ==
    IF ~store.root THEN Err
    ELSE Ok(SortStrings({MonthLabel(f) : f \in DOMAIN store.files}))

(***************************************************************************)
(* The session: App of src/tui/app.rs.  month_state and transaction_state  *)
(* hold the Option<usize> that ListState and TableState call selected.     *)
(***************************************************************************)
None == <<>>

Some(v) == <<v>>

\* The value inside a Some.
Unwrap(option) == option[1]

\* usize::MAX; the width is that of the smallest target, any other value
\* behaves alike in the runs explored.
UsizeMax == 2^16 - 1

\* a - b on usize: with overflow checks (a debug build) an underflow
\* panics, without them (a release build) it wraps.
UsizeSub(a, b, overflow_checks) ==
    IF a >= b THEN [panic |-> FALSE, value |-> a - b]
    ELSE IF overflow_checks THEN [panic |-> TRUE]
    ELSE [panic |-> FALSE, value |-> UsizeMax + 1 - (b - a)]

Normal == [mode |-> "Normal"]

Add(step, transaction) == [mode |-> "Add", step |-> step, transaction |-> transaction]

Update(step, transaction) ==
    [mode |-> "Update", step |-> step, transaction |-> transaction]

\* Transaction::default
TransactionDefault(today) == Transaction(today, 0, <<>>)

\* No session: before App::default and after the process ended.
NoApp ==
    [months            |-> <<>>,
     current_month     |-> <<1970, 1, 1>>,
     month_state       |-> None,
     transaction_state |-> None,
     transactions      |-> <<>>,
     input             |-> <<>>,
     state             |-> Normal]

\* The outcome of a handler: the session it leaves, the store it leaves and
\* whether the process still runs.  A panic ends the process and its App;
\* what it had written to the store before stays written.
Running(a, s) == [app |-> a, store |-> s, status |-> "running"]

Panicked(a, s) == [app |-> NoApp, store |-> s, status |-> "panicked"]

\* refresh_current_month once the label is parsed.
CurrentMonthParsed(a, date) ==
    IF ~date.ok THEN [panic |-> TRUE]
    ELSE [panic |-> FALSE, app |-> [a EXCEPT !.current_month = date.date]]

\* Panics without a selection, on a selection outside months and on a
\* label that is no month.
refresh_current_month(a) ==
    IF a.month_state = None \/ Unwrap(a.month_state) >= Len(a.months)
    THEN [panic |-> TRUE]
    ELSE CurrentMonthParsed(
            a, get_date(a.months[Unwrap(a.month_state) + 1] \o <<"-", "0", "1">>))

\* get_selected_month once the months are listed.
SelectedOf(month_list, month_state) ==
    IF ~month_list.ok THEN [ok |-> FALSE, panic |-> FALSE]
    ELSE IF month_state = None \/ Unwrap(month_state) >= Len(month_list.value)
    THEN [ok |-> FALSE, panic |-> TRUE]
    ELSE [ok |-> TRUE, panic |-> FALSE,
          value |-> month_list.value[Unwrap(month_state) + 1] \o <<"-", "0", "1">>]

\* An error when the months cannot be listed; panics without a selection
\* and on a selection outside the months listed.
get_selected_month(store, month_state) == SelectedOf(get_months(store), month_state)

\* get_transactions_for_selected_month once the month is known:
\* get_transactions_for_month(&Some(month)), which does not read the clock.
LoadSelected(store, month) ==
    IF ~month.ok THEN month
    ELSE LoadDated(store, string_to_time(month.value)) @@ [panic |-> FALSE]

get_transactions_for_selected_month(store, month_state) ==
    LoadSelected(store, get_selected_month(store, month_state))

\* refresh_transactions given what its two calls return; both expect.
Refreshed(cur, ts) ==
    IF cur.panic THEN [panic |-> TRUE]
    ELSE IF ~ts.ok THEN [panic |-> TRUE]
    ELSE [panic |-> FALSE, app |-> [cur.app EXCEPT !.transactions = ts.value]]

\* A faulty refresh: the rows loaded before stay.
refresh_transactions_stale(a, store) ==
    Refreshed(refresh_current_month(a), Ok(a.transactions))

refresh_transactions(a, store) ==
    Refreshed(refresh_current_month(a),
              get_transactions_for_selected_month(store, a.month_state))

\* get_months().unwrap_or_default()
OrDefault(months) == IF months.ok THEN months.value ELSE <<>>

MonthsOrDefault(store) == OrDefault(get_months(store))

\* A faulty refresh: the months listed before stay.
refresh_months_stale(a, store) == a

refresh_months(a, store) == [a EXCEPT !.months = MonthsOrDefault(store)]

set_input_to_sum(a, store) ==
    [a EXCEPT !.input = <<"Sum for current month: ">>
                            \o get_formatted_sum_for_month(store, a.current_month)]

\* The App literal App::default starts from; NaiveDate::default is 1970-01-01.
AppLiteral(store) == [NoApp EXCEPT !.months = MonthsOrDefault(store)]

\* A faulty App::default: the session starts without a month selected.
AppLoadedUnselected(a0, store, cur, ts) ==
    IF cur.panic THEN Panicked(a0, store)
    ELSE IF ts.panic THEN Panicked(a0, store)
    ELSE Running(set_input_to_sum(
                    [cur.app EXCEPT !.month_state = None,
                                    !.transaction_state = Some(0),
                                    !.transactions = IF ts.ok THEN ts.value ELSE <<>>],
                    store),
                 store)

\* The end of App::default, given what refresh_current_month and
\* get_transactions_for_selected_month return, then the set_input_to_sum
\* that opens run_app.
AppLoaded(a0, store, cur, ts) ==
    IF cur.panic THEN Panicked(a0, store)
    ELSE IF ts.panic THEN Panicked(a0, store)
    ELSE Running(set_input_to_sum(
                    [cur.app EXCEPT !.transaction_state = Some(0),
                                    !.transactions = IF ts.ok THEN ts.value ELSE <<>>],
                    store),
                 store)

\* A faulty App::default: the first month is selected.
AppSelectedFirst(a0, store, last) ==
    IF last.panic THEN Panicked(a0, store)
    ELSE AppLoaded(a0, store,
                   refresh_current_month([a0 EXCEPT !.month_state = Some(0)]),
                   get_transactions_for_selected_month(store, Some(0)))

\* App::default from its App literal on: the last month is selected.
AppSelected(a0, store, last) ==
    IF last.panic THEN Panicked(a0, store)
    ELSE AppLoaded(a0, store,
                   refresh_current_month([a0 EXCEPT !.month_state = Some(last.value)]),
                   get_transactions_for_selected_month(store, Some(last.value)))

AppStarted(a0, store, overflow_checks) ==
    AppSelected(a0, store, UsizeSub(Len(a0.months), 1, overflow_checks))

\* App::default, then the set_input_to_sum that opens run_app.
AppDefault(store, overflow_checks) ==
    AppStarted(AppLiteral(store), store, overflow_checks)

(***************************************************************************)
(* The key handlers of run_app in Normal mode.                             *)
(***************************************************************************)
\* 'q': run_app returns.
KeyQuit(a, store) == [app |-> NoApp, store |-> store, status |-> "quit"]

\* A faulty 'n': one step past the last index before the wrap to 0.
NextIndexPastLast(selected, amount, overflow_checks) ==
    LET last == UsizeSub(amount, 1, overflow_checks)
    IN  IF last.panic THEN last
        ELSE [panic |-> FALSE,
              value |-> IF selected > last.value THEN 0 ELSE selected + 1]

\* 'n': the index after selected, 0 behind the last.
NextIndex(selected, amount, overflow_checks) ==
    LET last == UsizeSub(amount, 1, overflow_checks)
    IN  IF last.panic THEN last
        ELSE [panic |-> FALSE,
              value |-> IF selected >= last.value THEN 0 ELSE selected + 1]

\* A faulty 'p': no wrap from 0 to the last index.
PrevIndexNoWrap(selected, amount, overflow_checks) ==
    [panic |-> FALSE, value |-> IF selected > 0 THEN selected - 1 ELSE 0]

\* 'p': the index before selected, the last before 0.
PrevIndex(selected, amount, overflow_checks) ==
    IF selected > 0 THEN [panic |-> FALSE, value |-> selected - 1]
    ELSE UsizeSub(amount, 1, overflow_checks)

\* The end of a handler that refreshed the rows: the expect of the refresh.
Refreshing(a, store, r) ==
    IF r.panic THEN Panicked(a, store) ELSE Running(r.app, store)

\* A faulty 'n' and 'p': the row selected stays.
MonthLoadedKeepsRow(a, store, r) ==
    IF r.panic THEN Panicked(a, store)
    ELSE Running(set_input_to_sum(r.app, store), store)

\* 'n' and 'p' after the refresh: first row, sum.
MonthLoaded(a, store, r) ==
    IF r.panic THEN Panicked(a, store)
    ELSE Running(set_input_to_sum([r.app EXCEPT !.transaction_state = Some(0)],
                                  store),
                 store)

\* What follows the new month selection: reload, first row, sum.
MonthSelected(a, store, selected) ==
    MonthLoaded(a, store,
                refresh_transactions([a EXCEPT !.month_state = Some(selected)], store))

KeyNextMonth(a, store, overflow_checks) ==
    LET i == NextIndex(Unwrap(a.month_state), Len(a.months), overflow_checks)
    IN  IF a.month_state = None THEN Running(a, store)
        ELSE IF i.panic THEN Panicked(a, store)
        ELSE MonthSelected(a, store, i.value)

KeyPrevMonth(a, store, overflow_checks) ==
    LET i == PrevIndex(Unwrap(a.month_state), Len(a.months), overflow_checks)
    IN  IF a.month_state = None THEN Running(a, store)
        ELSE IF i.panic THEN Panicked(a, store)
        ELSE MonthSelected(a, store, i.value)

KeyNextTransaction(a, store, overflow_checks) ==
    LET i == NextIndex(Unwrap(a.transaction_state), Len(a.transactions),
                       overflow_checks)
    IN  IF a.transaction_state = None THEN Running(a, store)
        ELSE IF i.panic THEN Panicked(a, store)
        ELSE Running([a EXCEPT !.transaction_state = Some(i.value)], store)

KeyPrevTransaction(a, store, overflow_checks) ==
    LET i == PrevIndex(Unwrap(a.transaction_state), Len(a.transactions),
                       overflow_checks)
    IN  IF a.transaction_state = None THEN Running(a, store)
        ELSE IF i.panic THEN Panicked(a, store)
        ELSE Running([a EXCEPT !.transaction_state = Some(i.value)], store)

\* A faulty selection after a delete: the row selected stays.
DeleteSelectionKept(selected, amount_transactions) == selected

\* The row selected after a delete that succeeded.
DeleteSelection(selected, amount_transactions) ==
    IF amount_transactions > 1 /\ selected = amount_transactions - 1
    THEN selected - 1 ELSE selected

\* A faulty 'd': the selection moves although the delete failed.
DeletedMovesOnFailure(a, store, result) ==
    IF result.panic THEN Panicked(a, store)
    ELSE Running([a EXCEPT !.input = <<"Cannot delete entry">>,
                           !.transaction_state =
                               Some(DeleteSelection(Unwrap(a.transaction_state),
                                                    Len(a.transactions)))],
                 store)

\* 'd' once del_entry_by_date returned.
Deleted(a, store, result) ==
    IF result.panic THEN Panicked(a, store)
    ELSE IF ~result.ok
         THEN Running([a EXCEPT !.input = <<"Cannot delete entry">>], store)
    ELSE Refreshing(a, result.value,
            refresh_transactions(
               [a EXCEPT !.transaction_state =
                   Some(DeleteSelection(Unwrap(a.transaction_state),
                                        Len(a.transactions)))],
               result.value))

\* 'd'
KeyDelete(a, store) ==
    IF a.transaction_state = None
    THEN Running([a EXCEPT !.input = <<"No entry to delete is selected">>], store)
    ELSE Deleted(a, store,
                 del_entry_by_date(store, a.current_month, Unwrap(a.transaction_state)))

\* 'a'
KeyBeginAdd(a, store, today) ==
    Running([a EXCEPT !.state = Add("Date", TransactionDefault(today)),
                      !.input = <<>>], store)

\* 'u': panics without a selection and on a selection outside the list.
KeyBeginUpdate(a, store) ==
    IF a.transaction_state = None \/ Unwrap(a.transaction_state) >= Len(a.transactions)
    THEN Panicked(a, store)
    ELSE LET transaction == a.transactions[Unwrap(a.transaction_state) + 1]
         IN  Running([a EXCEPT !.input = time_to_csv(transaction.date),
                               !.state = Update("Date", transaction)], store)

(***************************************************************************)
(* The key handlers of run_app in Add and Update mode.                     *)
(***************************************************************************)
\* Esc
KeyCancel(a, store) == Running([a EXCEPT !.state = Normal], store)

\* A faulty Char(c): 'q' quits in every mode.
KeyCharQuits(a, store, c) ==
    IF c = "q" THEN KeyQuit(a, store)
    ELSE Running([a EXCEPT !.input = Append(a.input, c)], store)

\* Char(c)
KeyChar(a, store, c) == Running([a EXCEPT !.input = Append(a.input, c)], store)

\* Backspace: String::pop
KeyBackspace(a, store) ==
    Running([a EXCEPT !.input =
                 IF a.input = <<>> THEN <<>> ELSE SubSeq(a.input, 1, Len(a.input) - 1)],
            store)

\* What add_enter and update_enter do once the store is written.
Completed(a, store, notice) ==
    Refreshing(a, store,
       refresh_transactions(
          refresh_months([a EXCEPT !.state = Normal, !.input = <<notice>>], store),
          store))

\* A faulty Enter at the Date step of an add: the Amount step is skipped.
AddDateEnteredSkips(a, store, date) ==
    Running([a EXCEPT !.input = <<>>,
                      !.state = IF date.ok
                                THEN Add("Description",
                                         [a.state.transaction EXCEPT !.date = date.date])
                                ELSE a.state],
            store)

\* Enter at the Date step of an add: the date is kept if it is one, the
\* input is cleared in any case.
AddDateEntered(a, store, date) ==
    Running([a EXCEPT !.input = <<>>,
                      !.state = IF date.ok
                                THEN Add("Amount",
                                         [a.state.transaction EXCEPT !.date = date.date])
                                ELSE a.state],
            store)

\* A faulty Enter at the Amount step of an add: the draft is saved already.
AddAmountEnteredSaves(a, store, amount) ==
    IF ~amount.ok THEN Panicked(a, store)
    ELSE Running([a EXCEPT !.input = <<>>,
                           !.state = Add("Description",
                               [a.state.transaction EXCEPT !.amount = amount.amount])],
                 OrDefault(add_transaction(store,
                     [a.state.transaction EXCEPT !.amount = amount.amount]))
                 )

\* Enter at the Amount step of an add.
AddAmountEntered(a, store, amount) ==
    IF ~amount.ok THEN Panicked(a, store)
    ELSE Running([a EXCEPT !.input = <<>>,
                           !.state = Add("Description",
                               [a.state.transaction EXCEPT !.amount = amount.amount])],
                 store)

\* Enter at the Description step of an add, once add_transaction returned.
Added(a, store, written) ==
    IF ~written.ok THEN Panicked(a, store)
    ELSE Completed(a, written.value, "Added entry successfully")

\* Enter in Add mode
add_enter(a, store, today) ==
    CASE a.state.step = "Date" ->
           AddDateEntered(a, store, get_date_or_today(a.input, today))
      [] a.state.step = "Amount" ->
           AddAmountEntered(a, store, ParseAmount(a.input))
      [] a.state.step = "Description" ->
           Added(a, store,
                 add_transaction(store,
                     [a.state.transaction EXCEPT !.description = a.input]))

\* Enter at the Date step of an update.
UpdateDateEntered(a, store, date) ==
    IF ~date.ok THEN Panicked(a, store)
    ELSE Running([a EXCEPT !.input = AmountToString(a.state.transaction.amount),
                           !.state = Update("Amount",
                               [a.state.transaction EXCEPT !.date = date.date])],
                 store)

\* Enter at the Amount step of an update.
UpdateAmountEntered(a, store, amount) ==
    IF ~amount.ok THEN Panicked(a, store)
    ELSE Running([a EXCEPT !.input = a.state.transaction.description,
                           !.state = Update("Description",
                               [a.state.transaction EXCEPT !.amount = amount.amount])],
                 store)

\* Enter at the Description step of an update, once write_transactions
\* returned.
Updated(a, store, written) ==
    IF ~written.ok THEN Panicked(a, store)
    ELSE Completed(a, written.value, "Updated entry successfully")

\* Enter in Update mode
update_enter(a, store, today) ==
    CASE a.state.step = "Date" ->
           UpdateDateEntered(a, store, get_date_or_today(a.input, today))
      [] a.state.step = "Amount" ->
           UpdateAmountEntered(a, store, ParseAmount(a.input))
      [] a.state.step = "Description" ->
           IF a.transaction_state = None
              \/ Unwrap(a.transaction_state) >= Len(a.transactions)
           THEN Panicked(a, store)
           ELSE Updated(a, store,
                   write_transactions(store,
                      [a.transactions EXCEPT ![Unwrap(a.transaction_state) + 1] =
                          [a.state.transaction EXCEPT !.description = a.input]]))

(***************************************************************************)
(* The inputs explored.                                                    *)
(***************************************************************************)
\* The texts the user types at each prompt, one character at a time, and
\* with them every prefix: dates of two months of year 1 and of a year
\* without directory; the amount "1" and "1q", which is no amount; the
\* longest description, of the letter q.
TypedTexts(step) ==
    CASE step = "Date" ->
           { <<"1", "-", "1", "-", "1">>, <<"1", "-", "2", "-", "1">>,
             <<"2", "-", "1", "-", "1">> }
      [] step = "Amount" -> { <<"1", "q">> }
      [] step = "Description" -> { [i \in 1..MaxDescLen |-> "q"] }

Chars == {"1", "2", "-", "q"}

IsPrefix(s, t) == Len(s) <= Len(t) /\ SubSeq(t, 1, Len(s)) = s

Typable(step, s) == \E t \in TypedTexts(step) : IsPrefix(s, t)

\* The date the clock shows.
Todays == { <<1, 1, 2>> }

\* The arguments of the command-line runs; <<>> is no --date.
CliDates == { <<>>, <<"1", "-", "1", "-", "1">>, <<"2", "-", "1", "-", "1">> }

CliAmounts == { 2 }

CliDescriptions == { <<"q">> }

EmptyStore(root, dirs) ==
    [root |-> root, dirs |-> dirs, files |-> <<>>, writable |-> TRUE]

\* The storage the first command finds: no root, or a root with the year
\* directories made by hand.
InitialStores == { EmptyStore(FALSE, {}), EmptyStore(TRUE, {}), EmptyStore(TRUE, {1}) }

\* The rows of a month browsed: one transaction a day.
NavFile(month, rows) ==
    [i \in 1..rows |-> Transaction(<<1, month, i>>, i, <<"q">>)]

\* The storages browsed: the first months of year 1, each with some rows.
NavStores ==
    { [root  |-> TRUE,
       dirs  |-> {1},
       files |-> [f \in { <<1, m>> : m \in 1..n } |-> NavFile(f[2], rows[f[2]])],
       writable |-> TRUE] :
      n \in 1..NavMonths, rows \in [1..NavMonths -> 0..NavRows] }

\* Whether the build checks integer overflow: a debug or a release build.
Builds == BOOLEAN

RECURSIVE Stored(_, _)
Stored(files, names) ==
    IF names = {} THEN 0
    ELSE LET f == CHOOSE f \in names : TRUE
         IN  Len(files[f]) + Stored(files, names \ {f})

StoreExplored(s) == Stored(s.files, DOMAIN s.files) <= MaxStored

SelectionExplored(selected) ==
    IF selected = None THEN TRUE
    ELSE Unwrap(selected) <= MaxCursor \/ Unwrap(selected) = UsizeMax

(***************************************************************************)
(* The state machine.                                                      *)
(***************************************************************************)
VARIABLES
    store,            \* the storage root
    app,              \* the App of the session
    status            \* "shell", "running", "panicked" or "quit"

vars == <<store, app, status>>

Init ==
    /\ store \in InitialStores
    /\ app = NoApp
    /\ status = "shell"

Step(out) ==
    /\ app' = out.app
    /\ store' = out.store
    /\ status' = out.status

InMode(mode) == status = "running" /\ app.state.mode = mode

\* `feonancials add [--date D] AMOUNT DESCRIPTION`
CliAdd ==
    /\ status = "shell"
    /\ \E date \in CliDates, amount \in CliAmounts,
          description \in CliDescriptions, today \in Todays :
          \E r \in { add_date_entry(store, date, amount, description, today) } :
              /\ r.ok => StoreExplored(r.value)
              /\ store' = IF r.ok THEN r.value ELSE store
    /\ UNCHANGED <<app, status>>

\* `feonancials delete [--date D] INDEX`
CliDel ==
    /\ status = "shell"
    /\ \E date \in CliDates, index \in 0..MaxStored, today \in Todays :
          \E r \in { del_entry(store, date, index, today) } :
              store' = IF r.ok THEN r.value ELSE store
    /\ UNCHANGED <<app, status>>

\* `feonancials tui`
StartTui ==
    /\ status = "shell"
    /\ \E overflow_checks \in Builds : Step(AppDefault(store, overflow_checks))

Quit ==
    /\ InMode("Normal")
    /\ Step(KeyQuit(app, store))

NextMonth ==
    /\ InMode("Normal")
    /\ \E overflow_checks \in Builds : Step(KeyNextMonth(app, store, overflow_checks))

PrevMonth ==
    /\ InMode("Normal")
    /\ \E overflow_checks \in Builds : Step(KeyPrevMonth(app, store, overflow_checks))

NextTransaction ==
    /\ InMode("Normal")
    /\ \E overflow_checks \in Builds :
          \E out \in { KeyNextTransaction(app, store, overflow_checks) } :
              SelectionExplored(out.app.transaction_state) /\ Step(out)

PrevTransaction ==
    /\ InMode("Normal")
    /\ \E overflow_checks \in Builds :
          \E out \in { KeyPrevTransaction(app, store, overflow_checks) } :
              SelectionExplored(out.app.transaction_state) /\ Step(out)

Delete ==
    /\ InMode("Normal")
    /\ Step(KeyDelete(app, store))

BeginAdd ==
    /\ InMode("Normal")
    /\ \E today \in Todays : Step(KeyBeginAdd(app, store, today))

BeginUpdate ==
    /\ InMode("Normal")
    /\ Step(KeyBeginUpdate(app, store))

Cancel ==
    /\ InMode("Add") \/ InMode("Update")
    /\ Step(KeyCancel(app, store))

TypeChar ==
    /\ InMode("Add") \/ InMode("Update")
    /\ \E c \in Chars :
          /\ Typable(app.state.step, Append(app.input, c))
          /\ Step(KeyChar(app, store, c))

Backspace ==
    /\ InMode("Add") \/ InMode("Update")
    /\ Step(KeyBackspace(app, store))

ConfirmExplored(out) == StoreExplored(out.store)

ConfirmAdd ==
    /\ InMode("Add")
    /\ \E today \in Todays :
          \E out \in { add_enter(app, store, today) } :
              ConfirmExplored(out) /\ Step(out)

ConfirmUpdate ==
    /\ InMode("Update")
    /\ \E today \in Todays :
          \E out \in { update_enter(app, store, today) } :
              ConfirmExplored(out) /\ Step(out)

Next ==
    \/ CliAdd
    \/ CliDel
    \/ StartTui
    \/ Quit
    \/ NextMonth
    \/ PrevMonth
    \/ NextTransaction
    \/ PrevTransaction
    \/ Delete
    \/ BeginAdd
    \/ BeginUpdate
    \/ Cancel
    \/ TypeChar
    \/ Backspace
    \/ ConfirmAdd
    \/ ConfirmUpdate

Spec == Init /\ [][Next]_vars

(***************************************************************************)
(* Browsing: a session over a storage of up to NavMonths months that only  *)
(* moves the two selections.                                               *)
(***************************************************************************)
InitNav ==
    /\ store \in NavStores
    /\ app = NoApp
    /\ status = "shell"

NextNav ==
    \/ StartTui
    \/ Quit
    \/ NextMonth
    \/ PrevMonth
    \/ NextTransaction
    \/ PrevTransaction

SpecNav == InitNav /\ [][NextNav]_vars

(***************************************************************************)
(* A protected storage: the same months, which the process may read and    *)
(* may not write.  The session browses them and tries to delete.           *)
(***************************************************************************)
ProtectedStores == { [s EXCEPT !.writable = FALSE] : s \in NavStores }

InitProtected ==
    /\ store \in ProtectedStores
    /\ app = NoApp
    /\ status = "shell"

NextProtected ==
    \/ StartTui
    \/ Quit
    \/ NextMonth
    \/ PrevMonth
    \/ NextTransaction
    \/ PrevTransaction
    \/ Delete

SpecProtected == InitProtected /\ [][NextProtected]_vars

(***************************************************************************)
(* A session on a storage whose only month is not the first of its year:   *)
(* an add can make the file of a month before it.                          *)
(***************************************************************************)
LateStores ==
    { [root  |-> TRUE,
       dirs  |-> {1},
       files |-> (<<1, 2>> :> NavFile(2, 1)),
       writable |-> TRUE] }

InitLate ==
    /\ store \in LateStores
    /\ app = NoApp
    /\ status = "shell"

NextSession ==
    \/ StartTui
    \/ Quit
    \/ NextMonth
    \/ PrevMonth
    \/ NextTransaction
    \/ PrevTransaction
    \/ Delete
    \/ BeginAdd
    \/ BeginUpdate
    \/ Cancel
    \/ TypeChar
    \/ Backspace
    \/ ConfirmAdd
    \/ ConfirmUpdate

SpecLate == InitLate /\ [][NextSession]_vars

(***************************************************************************)
(* What the properties speak of.                                           *)
(***************************************************************************)
IsSortedByDate(ts) ==
    \A i \in 1..(Len(ts) - 1) : ~DateLess(ts[i + 1].date, ts[i].date)

Orderings(n) ==
    { p \in [1..n -> 1..n] : \A i, j \in 1..n : p[i] = p[j] => i = j }

\* sorted holds the elements of ts by ascending date, those of one date in
\* the order they have in ts.
IsStableSortOf(sorted, ts) ==
    /\ Len(sorted) = Len(ts)
    /\ IsSortedByDate(sorted)
    /\ \E p \in Orderings(Len(ts)) :
          /\ \A i \in 1..Len(ts) : sorted[i] = ts[p[i]]
          /\ \A i, j \in 1..Len(ts) :
                i < j /\ sorted[i].date = sorted[j].date => p[i] < p[j]

\* ts without the element at the 0-based index.
WithoutIndex(ts, index) ==
    [j \in 1..(Len(ts) - 1) |-> IF j <= index THEN ts[j] ELSE ts[j + 1]]

\* The content of a file, empty when there is none.
FileOrEmpty(s, f) == IF f \in DOMAIN s.files THEN s.files[f] ELSE <<>>

\* The vectors one write can hand over for file f whose outcome is new:
\* the file with one more transaction, the file with one transaction less,
\* the rows on display with one of them replaced.
Handed(f, new) ==
    LET old == FileOrEmpty(store, f)
    IN  { Append(old, new[i]) : i \in DOMAIN new }
        \cup { WithoutIndex(old, i - 1) : i \in DOMAIN old }
        \cup { [app.transactions EXCEPT ![i] = new[j]] :
               i \in DOMAIN app.transactions, j \in DOMAIN new }

\* The number of times t occurs in ts.
Occurrences(ts, t) == Cardinality({ i \in DOMAIN ts : ts[i] = t })

\* The file of the month on display.
CurrentFile == get_filename_from_date(app.current_month[1], app.current_month[2])

\* A step of the Delete key in which an entry was deleted.
DeleteSucceeded ==
    /\ store' # store
    /\ status' = "running"
    /\ app.transaction_state # None
    /\ Unwrap(app.transaction_state) < Len(app.transactions)
    /\ Delete

(***************************************************************************)
(* C1: every write leaves every file in ascending date order, the file     *)
(* written holds the transactions handed over with those of one date in    *)
(* the order they were handed over, and reloading a month yields the file  *)
(* in that same order.                                                     *)
(***************************************************************************)
C1_SortInvariant ==
    [][store' # store =>
       \A f \in DOMAIN store'.files :
          /\ IsSortedByDate(store'.files[f])
          /\ TransactionsOfMonth(store', <<f[1], f[2], 1>>) = store'.files[f]
          /\ FileOrEmpty(store, f) # store'.files[f] =>
                \E ts \in Handed(f, store'.files[f]) :
                   IsStableSortOf(store'.files[f], ts)]_vars

\* A month holds two different transactions of one date.
C1_Witness ==
    \E f \in DOMAIN store.files :
       /\ Len(store.files[f]) = 2
       /\ store.files[f][1].date = store.files[f][2].date
       /\ store.files[f][1] # store.files[f][2]

(***************************************************************************)
(* C2: in a session the selected row is an index into the rows loaded      *)
(* whenever there are rows, and nothing is selected when there are none.   *)
(***************************************************************************)
C2_SelectionValid ==
    status = "running" =>
       IF app.transactions = <<>>
       THEN app.transaction_state = None
       ELSE /\ app.transaction_state # None
            /\ Unwrap(app.transaction_state) < Len(app.transactions)

(***************************************************************************)
(* C3: in Normal mode the rows loaded are the file of the selected month,  *)
(* in ascending date order, and current_month is the first day of that     *)
(* month.                                                                  *)
(***************************************************************************)
C3_FreshLoad ==
    InMode("Normal") =>
       /\ app.month_state # None
       /\ Unwrap(app.month_state) < Len(app.months)
       /\ \E f \in DOMAIN store.files :
             /\ MonthLabel(f) = app.months[Unwrap(app.month_state) + 1]
             /\ app.current_month = <<f[1], f[2], 1>>
             /\ IsStableSortOf(app.transactions, store.files[f])

\* The session is back in Normal mode after an add into a second month.
C3_Witness ==
    /\ InMode("Normal")
    /\ app.input = <<"Added entry successfully">>
    /\ Len(app.months) = 2
    /\ app.transactions # <<>>

(***************************************************************************)
(* C4: a Delete that succeeds with row i selected leaves the file of the   *)
(* month on display holding the rows on display without row i, in          *)
(* ascending date order, and leaves every other file as it was.            *)
(***************************************************************************)
C4_DeleteExact ==
    [][DeleteSucceeded =>
          /\ DOMAIN store'.files = DOMAIN store.files
          /\ store'.files[CurrentFile] =
                WithoutIndex(app.transactions, Unwrap(app.transaction_state))
          /\ IsSortedByDate(store'.files[CurrentFile])
          /\ \A f \in DOMAIN store.files \ {CurrentFile} :
                store'.files[f] = store.files[f]]_vars

\* Two different rows are on display, the first is selected and the Delete
\* key deletes it.
C4_Witness ==
    /\ InMode("Normal")
    /\ Len(app.transactions) = 2
    /\ app.transactions[1] # app.transactions[2]
    /\ app.transaction_state = Some(0)
    /\ KeyDelete(app, store).status = "running"
    /\ KeyDelete(app, store).store # store

(***************************************************************************)
(* C5: a Delete that succeeds with the last of k > 1 rows selected selects *)
(* row k-2; with any other row selected the selection stays.               *)
(***************************************************************************)
C5_DeleteSelection ==
    [][DeleteSucceeded =>
          LET k == Len(app.transactions)
              i == Unwrap(app.transaction_state)
          IN  app'.transaction_state =
                 Some(IF k > 1 /\ i = k - 1 THEN k - 2 ELSE i)]_vars

\* The last of two rows is selected and the Delete key deletes it.
C5_Witness ==
    /\ InMode("Normal")
    /\ Len(app.transactions) = 2
    /\ app.transaction_state = Some(1)
    /\ KeyDelete(app, store).status = "running"
    /\ KeyDelete(app, store).store # store

(***************************************************************************)
(* Sequences of keys, as run_app handles them one after the other.         *)
(***************************************************************************)
\* The Enter key.
KeyEnter(out, today) ==
    IF out.status # "running" THEN out
    ELSE CASE out.app.state.mode = "Add" -> add_enter(out.app, out.store, today)
           [] out.app.state.mode = "Update" -> update_enter(out.app, out.store, today)
           [] OTHER -> out

\* The keys of a text, one character after the other.
RECURSIVE KeysOfText(_, _)
KeysOfText(out, text) ==
    IF text = <<>> \/ out.status # "running" THEN out
    ELSE KeysOfText(KeyChar(out.app, out.store, Head(text)), Tail(text))

\* 'a', the date, Enter, the amount, Enter, the description, Enter.
GuidedAdd(a, s, today, date, amount, description) ==
    KeyEnter(KeysOfText(
       KeyEnter(KeysOfText(
          KeyEnter(KeysOfText(KeyBeginAdd(a, s, today), date), today),
          amount), today),
       description), today)

\* One of the keys that move a selection.
KeyMove(key, out, overflow_checks) ==
    IF out.status # "running" THEN out
    ELSE CASE key = "n" -> KeyNextMonth(out.app, out.store, overflow_checks)
           [] key = "p" -> KeyPrevMonth(out.app, out.store, overflow_checks)
           [] key = "j" -> KeyNextTransaction(out.app, out.store, overflow_checks)
           [] key = "k" -> KeyPrevTransaction(out.app, out.store, overflow_checks)

\* n times one key.
RECURSIVE Repeated(_, _, _, _)
Repeated(key, out, n, overflow_checks) ==
    IF n = 0 THEN out
    ELSE Repeated(key, KeyMove(key, out, overflow_checks), n - 1, overflow_checks)

Descriptions == { <<>>, <<"q">> }

(***************************************************************************)
(* C6: an Enter that completes an update of row i leaves the file of the   *)
(* month on display with as many transactions as were on display: the rows *)
(* on display with row i replaced by the draft, in ascending date order.   *)
(***************************************************************************)
C6_UpdateInPlace ==
    [][/\ ConfirmUpdate
       /\ app.state.step = "Description"
       /\ status' = "running"
       => LET draft == [app.state.transaction EXCEPT !.description = app.input]
              i     == Unwrap(app.transaction_state)
          IN  /\ Len(store'.files[CurrentFile]) = Len(app.transactions)
              /\ IsStableSortOf(store'.files[CurrentFile],
                                [app.transactions EXCEPT ![i + 1] = draft])]_vars

(***************************************************************************)
(* C7: from Normal mode the keys of a guided add with a valid date, an     *)
(* amount and a description end in Normal mode; the file of the month of   *)
(* the date holds a transaction of that date and description, and the      *)
(* months listed from the storage and those of the session hold the month. *)
(***************************************************************************)
C7_GuidedAdd ==
    InMode("Normal") =>
       \A today \in Todays, date \in TypedTexts("Date"), description \in Descriptions :
          LET out == GuidedAdd(app, store, today, date, <<"1">>, description)
              d   == string_to_time(date).date
              f   == get_filename_from_date(d[1], d[2])
              ms  == get_months(out.store)
          IN  /\ out.status = "running"
              /\ out.app.state = Normal
              /\ f \in DOMAIN out.store.files
              /\ \E i \in DOMAIN out.store.files[f] :
                    /\ out.store.files[f][i].date = d
                    /\ out.store.files[f][i].description = description
              /\ ms.ok
              /\ \E i \in DOMAIN ms.value : ms.value[i] = MonthLabel(f)
              /\ \E i \in DOMAIN out.app.months : out.app.months[i] = MonthLabel(f)

(***************************************************************************)
(* C8: when the amount a is entered at the Amount step of a guided add and *)
(* the entry is completed, the file of the month of the draft holds one    *)
(* more transaction of the draft's date, amount -a and the description.    *)
(***************************************************************************)
C8_GuidedAddNegates ==
    InMode("Add") /\ app.state.step = "Amount" /\ ParseAmount(app.input).ok =>
       \A today \in Todays, description \in Descriptions :
          LET a   == ParseAmount(app.input).amount
              d   == app.state.transaction.date
              f   == get_filename_from_date(d[1], d[2])
              out == KeyEnter(KeysOfText(KeyEnter(Running(app, store), today),
                                         description), today)
              t   == Transaction(d, 0 - a, description)
          IN  out.status = "running" =>
                 Occurrences(FileOrEmpty(out.store, f), t)
                    = Occurrences(FileOrEmpty(store, f), t) + 1

(***************************************************************************)
(* C9: with N >= 1 months and a month of them selected, N times 'n' and N  *)
(* times 'p' select the month selected before; 'n' on the last month       *)
(* selects the first and 'p' on the first selects the last.                *)
(***************************************************************************)
C9_MonthCycle ==
    InMode("Normal") /\ app.month_state # None
    /\ Unwrap(app.month_state) < Len(app.months) =>
       \A overflow_checks \in Builds :
          LET N    == Len(app.months)
              i    == Unwrap(app.month_state)
              here == Running(app, store)
              n    == KeyMove("n", here, overflow_checks)
              p    == KeyMove("p", here, overflow_checks)
              ns   == Repeated("n", here, N, overflow_checks)
              ps   == Repeated("p", here, N, overflow_checks)
          IN  /\ ns.status = "running" /\ ns.app.month_state = Some(i)
              /\ ps.status = "running" /\ ps.app.month_state = Some(i)
              /\ n.status = "running" /\ p.status = "running"
              /\ n.app.month_state = Some(IF i = N - 1 THEN 0 ELSE i + 1)
              /\ p.app.month_state = Some(IF i = 0 THEN N - 1 ELSE i - 1)

\* The last of NavMonths months is selected.
C9_Witness ==
    /\ InMode("Normal")
    /\ Len(app.months) = NavMonths
    /\ app.month_state = Some(NavMonths - 1)

(***************************************************************************)
(* C10: with N >= 1 rows loaded and a row of them selected, N times 'j'    *)
(* and N times 'k' select the row selected before, and so does 'j'         *)
(* followed by 'k'.                                                        *)
(***************************************************************************)
C10_TransactionCycle ==
    InMode("Normal") /\ app.transaction_state # None
    /\ Unwrap(app.transaction_state) < Len(app.transactions) =>
       \A overflow_checks \in Builds :
          LET N    == Len(app.transactions)
              i    == Unwrap(app.transaction_state)
              here == Running(app, store)
              js   == Repeated("j", here, N, overflow_checks)
              ks   == Repeated("k", here, N, overflow_checks)
              jk   == KeyMove("k", KeyMove("j", here, overflow_checks), overflow_checks)
          IN  /\ js.status = "running" /\ js.app.transaction_state = Some(i)
              /\ ks.status = "running" /\ ks.app.transaction_state = Some(i)
              /\ jk.status = "running" /\ jk.app.transaction_state = Some(i)

\* The last of NavRows rows is selected.
C10_Witness ==
    /\ InMode("Normal")
    /\ Len(app.transactions) = NavRows
    /\ app.transaction_state = Some(NavRows - 1)

(***************************************************************************)
(* C11: in Normal mode with no rows loaded, 'j' and 'k' change nothing:    *)
(* the selection, the mode, the input and the store stay and the session   *)
(* keeps running.                                                          *)
(***************************************************************************)
C11_EmptyListNoOp ==
    [][InMode("Normal") /\ app.transactions = <<>>
       /\ (NextTransaction \/ PrevTransaction)
       => app' = app /\ store' = store /\ status' = "running"]_vars

(***************************************************************************)
(* C12: when the write of Enter at the Description step fails, or the      *)
(* reload of the rows fails, the session keeps running and the input       *)
(* shows a message.                                                        *)
(***************************************************************************)
\* Enter at the Description step whose write to the store fails.
PersistFails ==
    /\ status = "running"
    /\ app.state.mode \in {"Add", "Update"}
    /\ app.state.step = "Description"
    /\ IF app.state.mode = "Add"
       THEN ~add_transaction(store,
                [app.state.transaction EXCEPT !.description = app.input]).ok
       ELSE /\ app.transaction_state # None
            /\ Unwrap(app.transaction_state) < Len(app.transactions)
            /\ ~write_transactions(store,
                   [app.transactions EXCEPT ![Unwrap(app.transaction_state) + 1] =
                      [app.state.transaction EXCEPT !.description = app.input]]).ok

C12_StoreFailureShown ==
    [][PersistFails /\ (ConfirmAdd \/ ConfirmUpdate)
       => status' = "running" /\ store' = store /\ app'.input # <<>>]_vars

(***************************************************************************)
(* C13: 'd' and 'u' with a row selected that the list of the month does    *)
(* not have leave the store as it is and the session running.              *)
(***************************************************************************)
\* A row is selected that the rows loaded do not have.
SelectionOutOfRange ==
    /\ InMode("Normal")
    /\ app.transaction_state # None
    /\ Unwrap(app.transaction_state) >= Len(app.transactions)

C13_IndexOutOfRange ==
    [][SelectionOutOfRange /\ (Delete \/ BeginUpdate)
       => status' = "running" /\ store' = store]_vars

(***************************************************************************)
(* C14: Enter at the Date step of an add with a text that is no date       *)
(* changes nothing: the step, the draft and the input stay, the store is   *)
(* not written.                                                            *)
(***************************************************************************)
\* The input holds a text that is no date.
InputIsNoDate == app.input # <<>> /\ ~string_to_time(app.input).ok

C14_AddDateRejected ==
    [][InMode("Add") /\ app.state.step = "Date" /\ InputIsNoDate /\ ConfirmAdd
       => app' = app /\ store' = store /\ status' = "running"]_vars

(***************************************************************************)
(* C15: Enter at the Date step of an update with a text that is no date    *)
(* changes nothing either, and the session keeps running.                  *)
(***************************************************************************)
C15_UpdateDateRejected ==
    [][InMode("Update") /\ app.state.step = "Date" /\ InputIsNoDate /\ ConfirmUpdate
       => app' = app /\ store' = store /\ status' = "running"]_vars

(***************************************************************************)
(* C16: Enter at the Amount step of an add or an update with a text that   *)
(* is no number writes nothing to the store and leaves the session         *)
(* running.                                                                *)
(***************************************************************************)
C16_AmountRejected ==
    [][status = "running" /\ app.state.mode \in {"Add", "Update"}
       /\ app.state.step = "Amount" /\ ~ParseAmount(app.input).ok
       /\ (ConfirmAdd \/ ConfirmUpdate)
       => store' = store /\ status' = "running"]_vars

(***************************************************************************)
(* C17: when the store refuses the delete, 'd' puts an error message in    *)
(* the input and changes nothing else: both selections, the rows loaded    *)
(* and the mode stay, and so does the store.                               *)
(***************************************************************************)
\* The row selected is in the file of the month and the file may not be
\* written.
DeleteRefused ==
    /\ InMode("Normal")
    /\ app.transaction_state # None
    /\ Unwrap(app.transaction_state) < Len(FileOrEmpty(store, CurrentFile))
    /\ ~CanCreate(store, CurrentFile)

C17_DeleteFailureMessage ==
    [][DeleteRefused /\ Delete
       => /\ status' = "running"
          /\ store' = store
          /\ app'.input = <<"Cannot delete entry">>
          /\ app' = [app EXCEPT !.input = app'.input]]_vars

\* A refused delete of the last of several rows was reported.
C17_Witness ==
    /\ DeleteRefused
    /\ app.input = <<"Cannot delete entry">>
    /\ Len(app.transactions) > 1
    /\ app.transaction_state = Some(Len(app.transactions) - 1)

(***************************************************************************)
(* C18: with no month to list (the root is empty or cannot be read) the    *)
(* session starts: Normal mode, no months, no month and no row selected.   *)
(***************************************************************************)
C18_StartsWithoutMonths ==
    [][status = "shell" /\ MonthsOrDefault(store) = <<>> /\ StartTui
       => /\ status' = "running"
          /\ app'.state = Normal
          /\ app'.months = <<>>
          /\ app'.month_state = None
          /\ app'.transaction_state = None]_vars

(***************************************************************************)
(* C19: with months to list the session starts in Normal mode, with the    *)
(* months listed, the last of them selected, the rows of that month        *)
(* loaded in the order of their dates and the first row selected.          *)
(***************************************************************************)
\* The month file of the latest month.
LastFile(s) ==
    CHOOSE f \in DOMAIN s.files :
        \A g \in DOMAIN s.files :
            g[1] < f[1] \/ (g[1] = f[1] /\ g[2] <= f[2])

C19_InitialSession ==
    [][status = "shell" /\ store.root /\ DOMAIN store.files # {} /\ StartTui
       => /\ status' = "running"
          /\ app'.state = Normal
          /\ Len(app'.months) = Cardinality(DOMAIN store.files)
          /\ \A f \in DOMAIN store.files :
                \E i \in 1..Len(app'.months) : app'.months[i] = MonthLabel(f)
          /\ \A i \in 1..Len(app'.months) - 1 : StrLess(app'.months[i], app'.months[i + 1])
          /\ app'.month_state = Some(Len(app'.months) - 1)
          /\ app'.months[Len(app'.months)] = MonthLabel(LastFile(store))
          /\ IsStableSortOf(app'.transactions, store.files[LastFile(store)])
          /\ app'.transaction_state = Some(0)
          /\ store' = store]_vars

\* A session just started on several months, the last of them with rows.
C19_Witness ==
    /\ InMode("Normal")
    /\ Len(app.months) = NavMonths
    /\ app.month_state = Some(NavMonths - 1)
    /\ app.transaction_state = Some(0)
    /\ Len(app.transactions) = NavRows
    /\ app.current_month = <<1, NavMonths, 1>>

(***************************************************************************)
(* C20: Esc in Add or Update mode leads to Normal mode, writes nothing     *)
(* and drops the input: the text typed is no longer in it.                 *)
(***************************************************************************)
C20_CancelDiscards ==
    [][Cancel
       => /\ status' = "running"
          /\ app'.state = Normal
          /\ store' = store
          /\ app.input # <<>> => app'.input # app.input]_vars

(***************************************************************************)
(* C21: in a running session that lists months, a month of the list is     *)
(* selected, also after an add or an update listed the months anew.        *)
(***************************************************************************)
C21_MonthSelectionValid ==
    status = "running" /\ app.months # <<>>
    => /\ app.month_state # None
       /\ Unwrap(app.month_state) < Len(app.months)

\* An update that was completed listed a month more than before.
C21_Witness ==
    /\ InMode("Normal")
    /\ app.input = <<"Updated entry successfully">>
    /\ Len(app.months) = 2
    /\ app.month_state # None

(***************************************************************************)
(* C22: in a running session months is what listing the store yields now:  *)
(* one label for each month file, in ascending order, none twice.          *)
(***************************************************************************)
C22_MonthsMirrorStore ==
    status = "running"
    => /\ Len(app.months) = Cardinality(DOMAIN store.files)
       /\ \A f \in DOMAIN store.files :
             \E i \in 1..Len(app.months) : app.months[i] = MonthLabel(f)
       /\ \A i \in 1..Len(app.months) - 1 :
             StrLess(app.months[i], app.months[i + 1])

\* An add that was completed made a second month file.
C22_Witness ==
    /\ InMode("Normal")
    /\ app.input = <<"Added entry successfully">>
    /\ Cardinality(DOMAIN store.files) = 2

(***************************************************************************)
(* C23: every month that listing the store yields has a transaction in     *)
(* its file; a month whose last transaction was deleted is not listed.     *)
(***************************************************************************)
C23_ListedMonthsNonEmpty ==
    \A f \in DOMAIN store.files :
        (\E i \in 1..Len(MonthsOrDefault(store)) :
            MonthsOrDefault(store)[i] = MonthLabel(f))
        => store.files[f] # <<>>

(***************************************************************************)
(* C24: saving a transaction of a month whose year directory is missing    *)
(* under the root succeeds: the directory is made, the month file is       *)
(* written and the month is listed afterwards.                             *)
(***************************************************************************)
\* The years of the transactions saved.
SavedYears == 1..2

C24_CreatesYearDirectory ==
    store.root /\ store.writable
    => \A year \in SavedYears \ store.dirs :
          \E saved \in { add_transaction(store, Transaction(<<year, 1, 1>>, 1, <<"q">>)) } :
              /\ saved.ok
              /\ year \in saved.value.dirs
              /\ <<year, 1>> \in DOMAIN saved.value.files
              /\ \E i \in 1..Len(MonthsOrDefault(saved.value)) :
                    MonthsOrDefault(saved.value)[i] = MonthLabel(<<year, 1>>)

(***************************************************************************)
(* C25: listing the months of a root that is missing or has no month file  *)
(* succeeds and yields no month.                                           *)
(***************************************************************************)
C25_EmptyListing ==
    DOMAIN store.files = {} => get_months(store) = Ok(<<>>)

(***************************************************************************)
(* C26: loading a month that has no file yields no transaction and no      *)
(* error, and the sum of the month is 0.                                   *)
(***************************************************************************)
\* The months loaded.
LoadedKeys == { <<year, month>> : year \in 1..2, month \in 1..3 }

C26_MissingMonthIsEmpty ==
    \A f \in LoadedKeys \ DOMAIN store.files :
        /\ get_transactions(store, f) = <<>>
        /\ get_transactions_for_month(store, MonthLabel(f) \o <<"-", "0", "1">>,
                                      <<1, 1, 1>>) = Ok(<<>>)
        /\ get_sum_for_month(store, f[1], f[2]) = 0
        /\ get_formatted_sum_for_month(store, <<f[1], f[2], 1>>) = <<"0", ".", "0", "0">>

\* A month with a transaction next to months without file.
C26_Witness ==
    /\ <<1, 1>> \in DOMAIN store.files
    /\ store.files[<<1, 1>>] # <<>>
    /\ <<1, 2>> \notin DOMAIN store.files

(***************************************************************************)
(* C27: 'n' and 'p' in Normal mode leave the first row selected, the mode  *)
(* Normal, the months and the store as they were, whatever row was         *)
(* selected before.                                                        *)
(***************************************************************************)
C27_MonthChangeResetsRow ==
    [][InMode("Normal") /\ (NextMonth \/ PrevMonth)
       => /\ status' = "running"
          /\ app'.transaction_state = Some(0)
          /\ app'.state = Normal
          /\ app'.months = app.months
          /\ store' = store]_vars

\* The first of NavMonths months full of rows is on display, which only a
\* change of month selects.
C27_Witness ==
    /\ InMode("Normal")
    /\ Len(app.months) = NavMonths
    /\ app.month_state = Some(0)
    /\ app.transaction_state = Some(0)
    /\ Len(app.transactions) = NavRows

(***************************************************************************)
(* C28: an entry goes through Date, Amount and Description in this order.  *)
(* An Enter that is accepted moves one step on, and from Description to    *)
(* Normal mode; no Enter skips a step or goes a step back; and between Add *)
(* mode and Update mode the session is in Normal mode.                     *)
(***************************************************************************)
Rank(step) ==
    CASE step = "Date" -> 1 [] step = "Amount" -> 2 [] step = "Description" -> 3

\* The text in the input is one the Enter of the step takes.
InputAccepted ==
    CASE app.state.step = "Date" -> app.input = <<>> \/ string_to_time(app.input).ok
      [] app.state.step = "Amount" -> ParseAmount(app.input).ok
      [] app.state.step = "Description" -> TRUE

C28_StepOrder ==
    [][status = "running" /\ status' = "running"
       => /\ app.state.mode = "Normal"
             => app'.state.mode = "Normal" \/ app'.state.step = "Date"
          /\ app.state.mode # "Normal"
             => \/ app'.state.mode = "Normal"
                \/ /\ app'.state.mode = app.state.mode
                   /\ Rank(app'.state.step) - Rank(app.state.step) \in {0, 1}
          /\ app.state.mode # "Normal" /\ (ConfirmAdd \/ ConfirmUpdate)
             => IF app.state.step = "Description"
                THEN app'.state.mode = "Normal"
                ELSE /\ app'.state.mode = app.state.mode
                     /\ Rank(app'.state.step) =
                           Rank(app.state.step) + (IF InputAccepted THEN 1 ELSE 0)]_vars

\* An update has come to its last step.
C28_Witness ==
    /\ InMode("Update")
    /\ app.state.step = "Description"

(***************************************************************************)
(* C29: in Add and Update mode a character key appends its character to    *)
(* the input and Backspace removes the last character of it, if any; the   *)
(* mode, the step, the draft, both selections, the months, the rows and    *)
(* the store stay.  This holds for the keys that are commands in Normal    *)
(* mode too.                                                               *)
(***************************************************************************)
\* The characters that are commands in Normal mode.
NormalKeys == {"q", "n", "p", "j", "k", "d", "a", "u"}

C29_EditingOnlyChangesInput ==
    [][status = "running" /\ app.state.mode # "Normal"
       => /\ \A c \in NormalKeys :
                KeyChar(app, store, c) =
                   Running([app EXCEPT !.input = Append(app.input, c)], store)
          /\ TypeChar \/ Backspace
             => /\ status' = "running"
                /\ store' = store
                /\ app' = [app EXCEPT !.input = app'.input]
                /\ \/ \E c \in Chars : app'.input = Append(app.input, c)
                   \/ app.input # <<>>
                      /\ app'.input = SubSeq(app.input, 1, Len(app.input) - 1)
                   \/ app.input = <<>> /\ app'.input = <<>>]_vars

\* The key that quits in Normal mode was typed into the input.
C29_Witness ==
    /\ InMode("Add")
    /\ app.input = <<"1", "q">>

(***************************************************************************)
(* C30: an update shows at each step the field of the draft: 'u' copies    *)
(* the row selected into the draft and puts its date in the input, Enter   *)
(* at Date puts the amount there, Enter at Amount the description; three   *)
(* times Enter without typing stores the transaction as it was.            *)
(***************************************************************************)
C30_UpdatePrefills ==
    InMode("Normal") /\ app.transaction_state # None
    /\ Unwrap(app.transaction_state) < Len(app.transactions)
    => \A today \in Todays :
          LET original == app.transactions[Unwrap(app.transaction_state) + 1]
              begun    == KeyBeginUpdate(app, store)
              dated    == KeyEnter(begun, today)
              priced   == KeyEnter(dated, today)
              done     == KeyEnter(priced, today)
          IN  /\ begun.status = "running"
              /\ begun.app.state = Update("Date", original)
              /\ begun.app.input = time_to_csv(original.date)
              /\ dated.status = "running"
              /\ dated.app.state = Update("Amount", original)
              /\ dated.app.input = AmountToString(original.amount)
              /\ priced.status = "running"
              /\ priced.app.state = Update("Description", original)
              /\ priced.app.input = original.description
              /\ done.status = "running"
              /\ done.app.state = Normal
              /\ done.store = store
              /\ done.app.transactions = app.transactions

(***************************************************************************)
(* C31: an add that is completed changes the file of the month of the      *)
(* draft's date and no other: the file holds what it held and the draft,   *)
(* one transaction more, in ascending date order, also when it held a      *)
(* transaction of the same date and description.                           *)
(***************************************************************************)
\* The Enter that completes an entry of the mode.
Completes(mode) ==
    /\ InMode(mode)
    /\ app.state.step = "Description"
    /\ status' = "running"

C31_AddChangesOneFile ==
    [][Completes("Add") /\ ConfirmAdd
       => LET d == [app.state.transaction EXCEPT !.description = app.input]
              f == get_filename_from_date(d.date[1], d.date[2])
          IN  /\ DOMAIN store'.files = DOMAIN store.files \cup {f}
              /\ Len(store'.files[f]) = Len(FileOrEmpty(store, f)) + 1
              /\ IsStableSortOf(store'.files[f], Append(FileOrEmpty(store, f), d))
              /\ \A g \in DOMAIN store.files \ {f} :
                    store'.files[g] = store.files[g]]_vars

\* An add was completed whose transaction the file held already.
C31_Witness ==
    /\ InMode("Normal")
    /\ app.input = <<"Added entry successfully">>
    /\ \E f \in DOMAIN store.files :
          /\ Len(store.files[f]) = 2
          /\ store.files[f][1] = store.files[f][2]

(***************************************************************************)
(* C32: in a session the store changes on 'd' in Normal mode and on Enter  *)
(* at the Description step only; 'n', 'p', 'j', 'k', 'a', 'u', Esc, the    *)
(* character keys, Backspace and Enter at the other steps leave every      *)
(* month file as it is.                                                    *)
(***************************************************************************)
C32_StoreChanges ==
    [][status = "running" /\ store' # store
       => /\ \/ InMode("Normal") /\ Delete
             \/ /\ app.state.mode # "Normal"
                /\ app.state.step = "Description"
                /\ ConfirmAdd \/ ConfirmUpdate
          /\ ~(\/ NextMonth \/ PrevMonth \/ NextTransaction \/ PrevTransaction
               \/ BeginAdd \/ BeginUpdate \/ Cancel \/ TypeChar \/ Backspace
               \/ /\ app.state.mode # "Normal"
                  /\ app.state.step # "Description"
                  /\ ConfirmAdd \/ ConfirmUpdate)]_vars

\* An update was completed on a store of one month.
C32_Witness ==
    /\ InMode("Normal")
    /\ app.input = <<"Updated entry successfully">>
    /\ Cardinality(DOMAIN store.files) = 1

(***************************************************************************)
(* C33: after an add or an update that is completed the month selected     *)
(* has the label it had before, also when the operation made the file of   *)
(* a month whose label comes before it.                                    *)
(***************************************************************************)
\* The label of the month selected in session a.
SelectedLabel(a) == a.months[Unwrap(a.month_state) + 1]

C33_SelectedMonthKept ==
    [][(Completes("Add") /\ ConfirmAdd) \/ (Completes("Update") /\ ConfirmUpdate)
       => SelectedLabel(app') = SelectedLabel(app)]_vars

(***************************************************************************)
(* C34: every transaction in the file of a month has a date of that year   *)
(* and month, whatever adds, updates and deletes came before.              *)
(***************************************************************************)
C34_FilesHoldTheirMonth ==
    \A f \in DOMAIN store.files :
        \A i \in 1..Len(store.files[f]) :
            /\ store.files[f][i].date[1] = f[1]
            /\ store.files[f][i].date[2] = f[2]

(***************************************************************************)
(* C35: an update that is completed leaves the transactions stored for     *)
(* every month other than the one on display as they were, whatever date   *)
(* was confirmed and whichever row was updated.                            *)
(***************************************************************************)
C35_UpdateKeepsOtherMonths ==
    [][Completes("Update") /\ ConfirmUpdate
       => \A f \in (DOMAIN store.files \cup DOMAIN store'.files) \ {CurrentFile} :
             FileOrEmpty(store', f) = FileOrEmpty(store, f)]_vars

(***************************************************************************)
(* C36: after an update that is completed the row selected is the          *)
(* transaction updated, with the values of the draft, also when its new    *)
(* date gives it another place in the date order.                          *)
(***************************************************************************)
\* Backspace until the input is empty.
RECURSIVE Erased(_)
Erased(out) ==
    IF out.status # "running" \/ out.app.input = <<>> THEN out
    ELSE Erased(KeyBackspace(out.app, out.store))

\* 'u', the date typed in place of the one shown, and three times Enter.
Redated(a, s, today, date) ==
    KeyEnter(KeyEnter(KeyEnter(
       KeysOfText(Erased(KeyBeginUpdate(a, s)), date), today), today), today)

\* The dates an update gives: a day of the first month after the days
\* stored.
LaterDates == { <<"1", "-", "1", "-", "3">> }

C36_SelectionFollowsUpdate ==
    InMode("Normal") /\ app.transaction_state # None
    /\ Unwrap(app.transaction_state) < Len(app.transactions)
    => \A today \in Todays, date \in LaterDates :
          LET i     == Unwrap(app.transaction_state)
              draft == [app.transactions[i + 1] EXCEPT !.date = string_to_time(date).date]
              done  == Redated(app, store, today, date)
          IN  done.status = "running"
              => /\ done.app.transaction_state # None
                 /\ Unwrap(done.app.transaction_state) < Len(done.app.transactions)
                 /\ done.app.transactions[Unwrap(done.app.transaction_state) + 1] = draft

=============================================================================
